---------------------------- MODULE Spec2Model ----------------------------
(***************************************************************************)
(* Model of the HTML documentation scanner (src/main.py) and of the        *)
(* knowledge-graph builder (src/script.py).                                *)
(*                                                                         *)
(* Python strings are sequences of one-character strings, so that split,   *)
(* startswith, os.path.splitext and os.path.join are computed the way the  *)
(* library computes them (POSIX flavour of os.path).                       *)
(***************************************************************************)
EXTENDS Naturals, Sequences, FiniteSets

(***************************************************************************)
(* Bounds of the model.                                                    *)
(***************************************************************************)
\* most anchors in the files of a generated source directory, all together
MaxAnchors == 2
\* longest free part ("body") of a generated href
MaxBody == 2
\* deepest current_dir generated for the normalizer
MaxDepth == 2
\* largest number of leading "../" of a generated href
MaxUp == 3

(***************************************************************************)
(* String literals.                                                        *)
(***************************************************************************)
Empty == << >>
Slash == <<"/">>
DotSlash == <<".", "/">>
DotDot == <<".", ".">>
DotDotSlash == <<".", ".", "/">>
ExtHtml == <<".", "h", "t", "m", "l">>
ExtHtm == <<".", "h", "t", "m">>
Http == <<"h", "t", "t", "p", ":", "/", "/">>
Https == <<"h", "t", "t", "p", "s", ":", "/", "/">>
Mailto == <<"m", "a", "i", "l", "t", "o", ":">>
Hash == <<"#">>
Javascript == <<"j", "a", "v", "a", "s", "c", "r", "i", "p", "t", ":">>

\* Python's None; no string equals it (every element of a string is one character)
None == <<"None">>

(***************************************************************************)
(* Python string and os.path primitives.                                   *)
(***************************************************************************)
\* s.startswith(p)
StartsWith(s, p) == Len(s) >= Len(p) /\ SubSeq(s, 1, Len(p)) = p

\* s.find(c) + 1 : 1-based index of the first c in s, 0 when there is none
Find(s, c) ==
    IF \E i \in 1..Len(s) : s[i] = c
    THEN CHOOSE i \in 1..Len(s) : s[i] = c /\ \A j \in 1..(i - 1) : s[j] # c
    ELSE 0

\* s.rfind(c) + 1 : 1-based index of the last c in s, 0 when there is none
RFind(s, c) ==
    IF \E i \in 1..Len(s) : s[i] = c
    THEN CHOOSE i \in 1..Len(s) : s[i] = c /\ \A j \in (i + 1)..Len(s) : s[j] # c
    ELSE 0

\* s.split(c) : the list of the pieces of s between the occurrences of c
RECURSIVE Split(_, _)
Split(s, c) ==
    IF Find(s, c) = 0 THEN << s >>
    ELSE << SubSeq(s, 1, Find(s, c) - 1) >> \o Split(SubSeq(s, Find(s, c) + 1, Len(s)), c)

\* '/'.join(parts)
RECURSIVE Join(_)
Join(parts) ==
    IF Len(parts) = 0 THEN Empty
    ELSE IF Len(parts) = 1 THEN parts[1]
    ELSE parts[1] \o Slash \o Join(Tail(parts))

\* os.path.splitext(p)[0] (genericpath._splitext with sep '/', extsep '.'):
\* the last dot splits unless only dots precede it in the last component
SplitExtRoot(p) ==
    LET sepIndex == RFind(p, "/")
        dotIndex == RFind(p, ".")
    IN IF dotIndex > sepIndex /\ \E k \in (sepIndex + 1)..(dotIndex - 1) : p[k] # "."
       THEN SubSeq(p, 1, dotIndex - 1)
       ELSE p

\* os.path.join(a, b) (posixpath.join)
PathJoin(a, b) ==
    IF StartsWith(b, Slash) THEN b
    ELSE IF a = Empty \/ a[Len(a)] = "/" THEN a \o b
    ELSE a \o Slash \o b

(***************************************************************************)
(* KnowledgeGraphGenerator.get_node_id and normalize_path.                 *)
(***************************************************************************)
\* mutant: the separator is written for the empty directory too
get_node_id_alwaysJoin(relative_dir, filename) == relative_dir \o Slash \o filename

get_node_id(relative_dir, filename) ==
    IF relative_dir # Empty THEN relative_dir \o Slash \o filename ELSE filename

\* the prefixes of the links normalize_path ignores
IgnoredPrefixes == {Http, Https, Mailto, Hash, Javascript}

\* mutant: the tuple of prefixes lacks 'javascript:'
IsIgnored_noScript(href) == \E p \in {Http, Https, Mailto, Hash} : StartsWith(href, p)

IsIgnored(href) == \E p \in IgnoredPrefixes : StartsWith(href, p)

\* mutant: the extension is kept
CleanHref_keepExt(href) == Split(href, "#")[1]

\* href.split('#')[0], then os.path.splitext(...)[0]
CleanHref(href) == SplitExtRoot(Split(href, "#")[1])

\* the while loop: the number of leading '..' parts
RECURSIVE UpCount(_)
UpCount(parts) ==
    IF Len(parts) > 0 /\ parts[1] = DotDot THEN 1 + UpCount(Tail(parts)) ELSE 0

\* mutant: the slice drops one part too few
DropLast_offByOne(current_parts, up_count) ==
    SubSeq(current_parts, 1, Len(current_parts) - up_count + 1)

\* current_parts[:-up_count] for up_count >= 1
DropLast(current_parts, up_count) ==
    IF Len(current_parts) > up_count
    THEN SubSeq(current_parts, 1, Len(current_parts) - up_count)
    ELSE << >>

\* the branch taken when the cleaned href starts with '../'
ResolveAscent(current_dir, href) ==
    LET parts0 == Split(href, "/")
        up_count == UpCount(parts0)
        parts == SubSeq(parts0, up_count + 1, Len(parts0))
        current_parts == Split(current_dir, "/")
    IN IF Len(current_parts) >= up_count
       THEN Join(DropLast(current_parts, up_count) \o parts)
       ELSE None

normalize_path(current_dir, href) ==
    IF IsIgnored(href) THEN None
    ELSE LET h == CleanHref(href)
         IN IF StartsWith(h, DotDotSlash) THEN ResolveAscent(current_dir, h)
            ELSE IF StartsWith(h, DotSlash) THEN PathJoin(current_dir, SubSeq(h, 3, Len(h)))
            ELSE PathJoin(current_dir, h)

(***************************************************************************)
(* The state.                                                              *)
(*   fs           the source directory: file slot -> content or NoFile     *)
(*   walked       main.py: the files os.walk has handed to the loop so far *)
(*   html_files   main.py: the list scan_directory builds                  *)
(*   csv          the tabular export on disk (NoCsv: not written)          *)
(*   spc          main.py: position of the scanner                         *)
(*   nodes_info   script.py: self.nodes_info, in insertion order           *)
(*   graph_nodes, graph_edges   script.py: self.graph (a DiGraph)          *)
(*   todo, cur, links   add_links_to_graph: the nodes still to visit, the  *)
(*                node being visited and its links still to add            *)
(*   out          the graph file export_graph writes (NoOut: not written)  *)
(*   bpc          script.py: position of the graph builder                 *)
(*   stage        which of the builder's passes have completed             *)
(*   inp, nid, res, hpc   the single-link run: its input, the results of   *)
(*                get_node_id and normalize_path, and its position         *)
(***************************************************************************)
VARIABLES fs, walked, html_files, csv, spc,
          nodes_info, graph_nodes, graph_edges, todo, cur, links, out, bpc, stage,
          inp, nid, res, hpc

scanVars == << walked, html_files, csv, spc >>
graphVars == << nodes_info, graph_nodes, graph_edges >>
loopVars == << todo, cur, links >>
buildVars == << nodes_info, graph_nodes, graph_edges, todo, cur, links, out, bpc, stage >>
linkVars == << inp, nid, res, hpc >>
vars == << fs, walked, html_files, csv, spc,
           nodes_info, graph_nodes, graph_edges, todo, cur, links, out, bpc, stage,
           inp, nid, res, hpc >>

NoFile == [exists |-> FALSE]
NoCsv == [written |-> FALSE, rows |-> << >>]
NoOut == [written |-> FALSE]
NoNode == <<"NoNode">>

(***************************************************************************)
(* src/main.py: the metadata scanner.                                      *)
(***************************************************************************)
EmptyMeta == [keywords |-> Empty, description |-> Empty, module |-> Empty, title |-> Empty]

\* str.lower() on the characters the file names use
LowerChar(c) ==
    CASE c = "H" -> "h" [] c = "T" -> "t" [] c = "M" -> "m" [] c = "L" -> "l" [] OTHER -> c

Lower(s) == [i \in 1..Len(s) |-> LowerChar(s[i])]

EndsWith(s, p) == Len(s) >= Len(p) /\ SubSeq(s, Len(s) - Len(p) + 1, Len(s)) = p

\* file.lower().endswith(('.html', '.htm'))
IsHtmlName(base) == EndsWith(Lower(base), ExtHtml) \/ EndsWith(Lower(base), ExtHtm)

\* get_relative_path for the file at directory segments dirsegs below the root
get_relative_path(dirsegs) == IF Len(dirsegs) = 0 THEN Empty ELSE Join(dirsegs)

\* get_metadata_from_html: the parsed fields, the all-empty default when the
\* read or the parse raises (the except clause returns it)
get_metadata_from_html(file) == IF file.ok THEN file.meta ELSE EmptyMeta

\* mutant: the except clause misses the error of a file that cannot be read
MetadataEscapes_narrow(file) == ~file.ok

\* whether an exception of the read or the parse leaves get_metadata_from_html:
\* 'except Exception' catches every one of them
MetadataEscapes(file) == FALSE

\* encoding='cp1252', errors='replace': "W" stands for a character that
\* cp1252 cannot encode
Cp1252Char(c) == IF c = "W" THEN "?" ELSE c

Cp1252(s) == [i \in 1..Len(s) |-> Cp1252Char(s[i])]

CsvRow(r) ==
    [relative_dir |-> Cp1252(r.relative_dir), filename |-> Cp1252(r.filename),
     keywords |-> Cp1252(r.keywords), description |-> Cp1252(r.description),
     module |-> Cp1252(r.module), title |-> Cp1252(r.title)]

\* the files of the source directory
Existing == {f \in DOMAIN fs : fs[f].exists}

\* os.walk is top-down: a directory's files come before its subdirectories' files
WalkNext(f) ==
    /\ f \in Existing
    /\ \A i \in 1..Len(walked) : walked[i] # f
    /\ \A g \in Existing :
          Len(g.dir) < Len(f.dir) => \E i \in 1..Len(walked) : walked[i] = g

\* one iteration of the loop of scan_directory on file f
ScanFile(f) ==
    /\ spc = "scan"
    /\ WalkNext(f)
    /\ walked' = Append(walked, f)
    /\ LET metadata == get_metadata_from_html(fs[f])
       IN IF ~IsHtmlName(f.base)
          THEN UNCHANGED << html_files, spc >>
          ELSE IF MetadataEscapes(fs[f])
          THEN spc' = "aborted" /\ UNCHANGED html_files
          ELSE /\ html_files' = Append(html_files,
                     [relative_dir |-> get_relative_path(f.dir),
                      filename |-> SplitExtRoot(f.base),
                      keywords |-> metadata.keywords,
                      description |-> metadata.description,
                      module |-> metadata.module,
                      title |-> metadata.title])
               /\ UNCHANGED spc
    /\ UNCHANGED << fs, csv >>
    /\ UNCHANGED buildVars
    /\ UNCHANGED linkVars

\* the end of scan_directory: the table is written when it has a row
WriteCsv ==
    /\ spc = "scan"
    /\ \A f \in Existing : \E i \in 1..Len(walked) : walked[i] = f
    /\ csv' = IF html_files # << >>
              THEN [written |-> TRUE,
                    rows |-> [i \in 1..Len(html_files) |-> CsvRow(html_files[i])]]
              ELSE csv
    /\ spc' = "done"
    /\ UNCHANGED << fs, walked, html_files >>
    /\ UNCHANGED buildVars
    /\ UNCHANGED linkVars

(***************************************************************************)
(* src/script.py: the graph builder.                                       *)
(***************************************************************************)
IsSpace(c) == c = " "

\* a_tag.get_text(strip=True) of an anchor that holds one text
RECURSIVE Strip(_)
Strip(t) ==
    IF t = Empty THEN Empty
    ELSE IF IsSpace(t[1]) THEN Strip(Tail(t))
    ELSE IF IsSpace(t[Len(t)]) THEN Strip(SubSeq(t, 1, Len(t) - 1))
    ELSE t

\* Python truth of normalize_path's result: None and '' are false
Truthy(p) == p # None /\ p # Empty

\* the loop of extract_links_from_html over the anchors that carry an href
RECURSIVE CollectLinks(_, _)
CollectLinks(anchors, current_dir) ==
    IF anchors = << >> THEN << >>
    ELSE LET normalized_path == normalize_path(current_dir, anchors[1].href)
             rest == CollectLinks(Tail(anchors), current_dir)
         IN IF Truthy(normalized_path)
            THEN << [target |-> normalized_path, text |-> Strip(anchors[1].text)] >> \o rest
            ELSE rest

\* extract_links_from_html: no link when the read or the parse raises
extract_links_from_html(file, current_dir) ==
    IF file.ok THEN CollectLinks(file.anchors, current_dir) ELSE << >>

\* whether an exception of the read or the parse leaves extract_links_from_html:
\* 'except Exception' catches every one of them
LinksEscape(file) == FALSE

\* self.nodes_info[node_id] = info : a known key keeps its place
DictSet(d, info) ==
    IF \E i \in 1..Len(d) : d[i].id = info.id
    THEN [i \in 1..Len(d) |-> IF d[i].id = info.id THEN info ELSE d[i]]
    ELSE Append(d, info)

Keys(d) == {d[i].id : i \in 1..Len(d)}

RowInfo(row) ==
    [id |-> get_node_id(row.relative_dir, row.filename),
     relative_dir |-> row.relative_dir, filename |-> row.filename]

\* the loop of add_metadata_to_graph over the rows of the table
RECURSIVE LoadRows(_, _)
LoadRows(d, rows) ==
    IF rows = << >> THEN d ELSE LoadRows(DictSet(d, RowInfo(rows[1])), Tail(rows))

\* mutant: add_node runs once, after the loop, for the last row only
AddedNodes_lastOnly(rows) == IF rows = << >> THEN {} ELSE {RowInfo(rows[Len(rows)]).id}

\* self.graph.add_node(node_id) for every row
AddedNodes(rows) == {RowInfo(rows[i]).id : i \in 1..Len(rows)}

add_metadata_to_graph ==
    /\ spc = "done" /\ csv.written
    /\ hpc \in {"off", "normalized"}
    /\ bpc = "idle"
    /\ nodes_info' = LoadRows(nodes_info, csv.rows)
    /\ graph_nodes' = graph_nodes \cup AddedNodes(csv.rows)
    /\ stage' = IF stage = "EMPTY" THEN "NODES" ELSE stage
    /\ UNCHANGED << fs, graph_edges, todo, cur, links, out, bpc >>
    /\ UNCHANGED scanVars
    /\ UNCHANGED linkVars

\* os.path.exists / open on <root_dir>/<relative_dir>/<base>
FileAt(relative_dir, base) ==
    LET hits == {f \in DOMAIN fs : get_relative_path(f.dir) = relative_dir /\ f.base = base}
    IN IF hits = {} THEN NoFile ELSE fs[CHOOSE f \in hits : TRUE]

\* mutant: the .htm file is tried first
SourceFile_htmFirst(info) ==
    IF FileAt(info.relative_dir, info.filename \o ExtHtm).exists
    THEN FileAt(info.relative_dir, info.filename \o ExtHtm)
    ELSE FileAt(info.relative_dir, info.filename \o ExtHtml)

\* file_path = html_path if os.path.exists(html_path) else htm_path
SourceFile(info) ==
    IF FileAt(info.relative_dir, info.filename \o ExtHtml).exists
    THEN FileAt(info.relative_dir, info.filename \o ExtHtml)
    ELSE FileAt(info.relative_dir, info.filename \o ExtHtm)

\* the links of one node: none when neither file exists
NodeLinks(info) ==
    IF SourceFile(info).exists
    THEN extract_links_from_html(SourceFile(info), info.relative_dir)
    ELSE << >>

\* mutant: an edge that exists keeps its attribute
AddEdge_keepFirst(edges, u, v, text) ==
    IF \E e \in edges : e.source = u /\ e.target = v THEN edges
    ELSE edges \cup {[source |-> u, target |-> v, relationship |-> text]}

\* DiGraph.add_edge(u, v, relationship=text): one edge per ordered pair, the
\* attribute of an edge that exists is overwritten
AddEdge(edges, u, v, text) ==
    {e \in edges : ~(e.source = u /\ e.target = v)}
        \cup {[source |-> u, target |-> v, relationship |-> text]}

\* mutant: the membership test is dropped
IsKnown_always(d, target_path) == TRUE

\* if target_path in self.nodes_info
IsKnown(d, target_path) == target_path \in Keys(d)

\* add_links_to_graph starts: the loop runs over self.nodes_info.items()
AddLinksBegin ==
    /\ spc = "done" /\ csv.written
    /\ hpc \in {"off", "normalized"}
    /\ bpc = "idle"
    /\ bpc' = "links"
    /\ todo' = nodes_info
    /\ cur' = NoNode
    /\ links' = << >>
    /\ UNCHANGED << fs, out, stage >>
    /\ UNCHANGED graphVars
    /\ UNCHANGED scanVars
    /\ UNCHANGED linkVars

\* the outer loop reaches its next node and extracts its links
AddLinksNode ==
    /\ bpc = "links"
    /\ links = << >>
    /\ todo # << >>
    /\ IF SourceFile(todo[1]).exists /\ LinksEscape(SourceFile(todo[1]))
       THEN bpc' = "aborted" /\ UNCHANGED << cur, links, todo >>
       ELSE /\ cur' = todo[1].id
            /\ links' = NodeLinks(todo[1])
            /\ todo' = Tail(todo)
            /\ UNCHANGED bpc
    /\ UNCHANGED << fs, out, stage >>
    /\ UNCHANGED graphVars
    /\ UNCHANGED scanVars
    /\ UNCHANGED linkVars

\* the inner loop handles the next link of the node
AddLink ==
    /\ bpc = "links"
    /\ links # << >>
    /\ IF IsKnown(nodes_info, links[1].target)
       THEN /\ graph_edges' = AddEdge(graph_edges, cur, links[1].target, links[1].text)
            /\ graph_nodes' = graph_nodes \cup {cur, links[1].target}
       ELSE UNCHANGED << graph_edges, graph_nodes >>
    /\ links' = Tail(links)
    /\ UNCHANGED << fs, nodes_info, todo, cur, out, bpc, stage >>
    /\ UNCHANGED scanVars
    /\ UNCHANGED linkVars

\* add_links_to_graph returns
AddLinksEnd ==
    /\ bpc = "links"
    /\ links = << >>
    /\ todo = << >>
    /\ bpc' = "idle"
    /\ stage' = IF stage = "NODES" THEN "EDGES" ELSE stage
    /\ UNCHANGED << fs, todo, cur, links, out >>
    /\ UNCHANGED graphVars
    /\ UNCHANGED scanVars
    /\ UNCHANGED linkVars

\* export_graph: the node list and the edge list of the graph are written
export_graph ==
    /\ spc = "done" /\ csv.written
    /\ hpc \in {"off", "normalized"}
    /\ bpc = "idle"
    /\ out' = [written |-> TRUE, nodes |-> graph_nodes, edges |-> graph_edges]
    /\ bpc' = "exported"
    /\ UNCHANGED << fs, todo, cur, links, stage >>
    /\ UNCHANGED graphVars
    /\ UNCHANGED scanVars
    /\ UNCHANGED linkVars

(***************************************************************************)
(* The inputs of the pipeline: a source directory of three file slots.     *)
(***************************************************************************)
Sub == <<"s", "u", "b">>
IndexBase == <<"i", "n", "d", "e", "x">>
ChildBase == <<"c", "h", "i", "l", "d">>
IndexHtml == [dir |-> << >>, base |-> IndexBase \o ExtHtml]
ChildHtml == [dir |-> << Sub >>, base |-> ChildBase \o ExtHtml]
ChildHtm == [dir |-> << Sub >>, base |-> ChildBase \o ExtHtm]
Slots == {IndexHtml, ChildHtml, ChildHtm}

IndexId == IndexBase
ChildId == Sub \o Slash \o ChildBase

TextGo == <<"G", "o">>
TextBack == <<"B", "a", "c", "k">>
TextAgain == <<" ", "A", "g", "a", "i", "n", " ">>
\* <a href="sub/child.html">Go</a>
AnchorGo == [href |-> Sub \o Slash \o ChildBase \o ExtHtml, text |-> TextGo]
\* <a href="../index.html">Back</a>
AnchorBack == [href |-> DotDotSlash \o IndexBase \o ExtHtml, text |-> TextBack]
\* <a href="./sub/child.htm#top"> Again </a>
AnchorAgain == [href |-> DotSlash \o Sub \o Slash \o ChildBase \o ExtHtm \o <<"#", "t", "o", "p">>,
                text |-> TextAgain]
AnchorMenu == {AnchorGo, AnchorBack, AnchorAgain}

SomeMeta == [keywords |-> <<"k">>, description |-> <<"d">>, module |-> <<"m">>,
             title |-> <<"t", "W">>]

\* the files with k anchors: one that reads and parses, one whose read or parse
\* fails (its bytes hold the tags all the same); no file at all has no anchor
Files(k) ==
    {[exists |-> TRUE, ok |-> o, meta |-> SomeMeta, anchors |-> a] :
        o \in BOOLEAN, a \in [1..k -> AnchorMenu]}
    \cup (IF k = 0 THEN {NoFile} ELSE {})

\* the source directories whose files hold at most MaxAnchors anchors in all
Directories ==
    UNION {UNION {UNION {
        {[s \in Slots |-> IF s = IndexHtml THEN c1 ELSE IF s = ChildHtml THEN c2 ELSE c3] :
            c1 \in Files(k1), c2 \in Files(k2), c3 \in Files(k3)} :
        k3 \in 0..(MaxAnchors - k1 - k2)} : k2 \in 0..(MaxAnchors - k1)} : k1 \in 0..MaxAnchors}

LinkOff == [dir |-> << >>, pre |-> Empty, body |-> Empty, suf |-> Empty, known |-> FALSE]

Init ==
    /\ fs \in Directories
    /\ walked = << >>
    /\ html_files = << >>
    /\ csv = NoCsv
    /\ spc = "scan"
    /\ nodes_info = << >>
    /\ graph_nodes = {}
    /\ graph_edges = {}
    /\ todo = << >>
    /\ cur = NoNode
    /\ links = << >>
    /\ out = NoOut
    /\ bpc = "idle"
    /\ stage = "EMPTY"
    /\ inp = LinkOff
    /\ nid = None
    /\ res = None
    /\ hpc = "off"

Build ==
    \/ add_metadata_to_graph
    \/ AddLinksBegin
    \/ AddLinksNode
    \/ AddLink
    \/ AddLinksEnd
    \/ export_graph

Next ==
    \/ \E f \in Slots : ScanFile(f)
    \/ WriteCsv
    \/ Build

Spec == Init /\ [][Next]_vars

(***************************************************************************)
(* The single-link run: the builder on a directory of one page, at         *)
(* current_dir, that holds one anchor; get_node_id and normalize_path are  *)
(* applied to the page's inputs first.                                     *)
(***************************************************************************)
\* the directory segments a, b, a, b, ... : current_dir is one of '', 'a', 'a/b', ...
DirSeg(i) == IF i % 2 = 1 THEN <<"a">> ELSE <<"b">>
DirOf(n) == [i \in 1..n |-> DirSeg(i)]
LinkDirs == {DirOf(n) : n \in 0..MaxDepth}

\* '../' repeated k times
RECURSIVE Ups(_)
Ups(k) == IF k = 0 THEN Empty ELSE DotDotSlash \o Ups(k - 1)

LinkPrefixes == {Empty, DotSlash} \cup {Ups(k) : k \in 1..MaxUp} \cup IgnoredPrefixes

BodyChars == {"c", ".", "/", "#"}
LinkBodies == UNION {[1..k -> BodyChars] : k \in 0..MaxBody}

ExtHtmlFragment == ExtHtml \o <<"#", "f">>
LinkSuffixes == {Empty, ExtHtml, ExtHtm, ExtHtmlFragment}

LinkInputs ==
    [dir : LinkDirs, pre : LinkPrefixes, body : LinkBodies, suf : LinkSuffixes, known : BOOLEAN]

\* the page's current_dir and the href of its anchor
CurDir(i) == Join(i.dir)
Href(i) == i.pre \o i.body \o i.suf
\* the file name the href names when it is read as '<name><suffix>' or
\* './<name><suffix>': a name may itself begin with 'mailto:', 'javascript:' or '#'
LinkName(i) == IF i.pre \in {Mailto, Javascript, Hash} THEN i.pre \o i.body ELSE i.body
PageBase == <<"p">>
LinkText == <<"t">>

LinkPage(i) ==
    [exists |-> TRUE, ok |-> TRUE, meta |-> EmptyMeta,
     anchors |-> << [href |-> Href(i), text |-> LinkText] >>]

TableRow(relative_dir, filename) ==
    [relative_dir |-> relative_dir, filename |-> filename, keywords |-> Empty,
     description |-> Empty, module |-> Empty, title |-> Empty]

\* the table: the page itself and, when i.known, the pages 'c', 'a/c', 'a/b/c', ...
LinkTable(i) ==
    << TableRow(CurDir(i), PageBase) >>
        \o (IF i.known THEN [n \in 1..(MaxDepth + 1) |-> TableRow(Join(DirOf(n - 1)), <<"c">>)]
            ELSE << >>)

InitLink ==
    /\ inp \in LinkInputs
    /\ fs = [s \in {[dir |-> inp.dir, base |-> PageBase \o ExtHtml]} |-> LinkPage(inp)]
    /\ walked = << >>
    /\ html_files = << >>
    /\ csv = [written |-> TRUE, rows |-> LinkTable(inp)]
    /\ spc = "done"
    /\ nodes_info = << >>
    /\ graph_nodes = {}
    /\ graph_edges = {}
    /\ todo = << >>
    /\ cur = NoNode
    /\ links = << >>
    /\ out = NoOut
    /\ bpc = "idle"
    /\ stage = "EMPTY"
    /\ nid = None
    /\ res = None
    /\ hpc = "start"

\* get_node_id(current_dir, name)
LinkNodeId ==
    /\ hpc = "start"
    /\ nid' = get_node_id(CurDir(inp), LinkName(inp))
    /\ hpc' = "id"
    /\ UNCHANGED << fs, inp, res >>
    /\ UNCHANGED scanVars
    /\ UNCHANGED buildVars

\* normalize_path(current_dir, href)
LinkNormalize ==
    /\ hpc = "id"
    /\ res' = normalize_path(CurDir(inp), Href(inp))
    /\ hpc' = "normalized"
    /\ UNCHANGED << fs, inp, nid >>
    /\ UNCHANGED scanVars
    /\ UNCHANGED buildVars

NextLink ==
    \/ LinkNodeId
    \/ LinkNormalize
    \/ Build

SpecLink == InitLink /\ [][NextLink]_vars

(***************************************************************************)
(* What the claims speak of.                                               *)
(***************************************************************************)
\* the records of the tabular import and their page identifiers
TableRows == {csv.rows[i] : i \in 1..Len(csv.rows)}
TableIds == {get_node_id(r.relative_dir, r.filename) : r \in TableRows}

\* the identifiers imported so far: none before add_metadata_to_graph has run
ImportedIds == IF stage = "EMPTY" THEN {} ELSE TableIds

\* the file of directory d at <relative_dir>/<base>
FileIn(d, relative_dir, base) ==
    LET hits == {f \in DOMAIN d : Join(f.dir) = relative_dir /\ f.base = base}
    IN IF hits = {} THEN NoFile ELSE d[CHOOSE f \in hits : TRUE]

\* the source file of record r in directory d: <filename>.html, else <filename>.htm
PageIn(d, r) ==
    IF FileIn(d, r.relative_dir, r.filename \o ExtHtml).exists
    THEN FileIn(d, r.relative_dir, r.filename \o ExtHtml)
    ELSE FileIn(d, r.relative_dir, r.filename \o ExtHtm)

\* the anchors of record r's source file that resolve to identifier t
AnchorsTo(d, r, t) ==
    IF PageIn(d, r).exists
    THEN {i \in 1..Len(PageIn(d, r).anchors) :
            normalize_path(r.relative_dir, PageIn(d, r).anchors[i].href) = t}
    ELSE {}

Last(S) == CHOOSE i \in S : \A j \in S : j <= i

\* the edges the anchors of directory d give: source -> target for every anchor
\* of a known page that resolves to a known page, labelled by the trimmed text
\* of the last such anchor
EdgesIn(d) ==
    {[source |-> get_node_id(x[1].relative_dir, x[1].filename), target |-> x[2],
      relationship |-> Strip(PageIn(d, x[1]).anchors[Last(AnchorsTo(d, x[1], x[2]))].text)] :
        x \in {y \in TableRows \X TableIds : AnchorsTo(d, y[1], y[2]) # {}}}

Pairs(edges) == {<< e.source, e.target >> : e \in edges}

\* directory d with every page whose read or parse fails replaced by a page
\* that has no metadata and no links
BlankPage == [exists |-> TRUE, ok |-> TRUE, meta |-> EmptyMeta, anchors |-> << >>]
Degraded(d) == [f \in DOMAIN d |-> IF d[f].exists /\ ~d[f].ok THEN BlankPage ELSE d[f]]

\* the record the scanner emits for file f of directory d
RecordIn(d, f) ==
    [relative_dir |-> Join(f.dir), filename |-> SplitExtRoot(f.base),
     keywords |-> d[f].meta.keywords, description |-> d[f].meta.description,
     module |-> d[f].meta.module, title |-> d[f].meta.title]

\* the graph file was written by build_knowledge_graph: after the nodes and
\* then the edges were loaded
Built == out.written /\ stage = "EDGES"

Page(anchors) == [exists |-> TRUE, ok |-> TRUE, meta |-> SomeMeta, anchors |-> anchors]

(***************************************************************************)
(* C1: at every point of the builder, and in the exported file, every      *)
(* edge's source and target are identifiers get_node_id gives for a record *)
(* of the tabular import; a link that resolves to another identifier adds  *)
(* no edge and no node.                                                    *)
(***************************************************************************)
C1_EdgesJoinKnownNodes ==
    /\ \A e \in graph_edges : e.source \in ImportedIds /\ e.target \in ImportedIds
    /\ graph_nodes \subseteq ImportedIds
    /\ out.written => /\ \A e \in out.edges : e.source \in ImportedIds /\ e.target \in ImportedIds
                      /\ out.nodes \subseteq ImportedIds

\* a readable page of the table holds a link that resolves to no record, and
\* the graph was exported with an edge in it
C1_Witness ==
    /\ Built
    /\ out.edges # {}
    /\ \E r \in TableRows :
          /\ PageIn(fs, r).exists /\ PageIn(fs, r).ok
          /\ \E i \in 1..Len(PageIn(fs, r).anchors) :
                LET t == normalize_path(r.relative_dir, PageIn(fs, r).anchors[i].href)
                IN Truthy(t) /\ t \notin TableIds

(***************************************************************************)
(* C4, as claimed: the graph build_knowledge_graph writes holds an edge    *)
(* source -> target exactly when source is a known node whose source file  *)
(* exists (<filename>.html, else .htm), the file contains an anchor whose  *)
(* href normalize_path resolves, relative to the source's relative_dir, to *)
(* target, and target is a known node.                                     *)
(***************************************************************************)
C4_EdgesOfEveryExistingFile == Built => Pairs(out.edges) = Pairs(EdgesIn(fs))

\* index.html links to sub/child.html (Go), sub/child.html to ../index.html (Back)
TwoPages ==
    [s \in Slots |-> IF s = IndexHtml THEN Page(<< AnchorGo >>)
                     ELSE IF s = ChildHtml THEN Page(<< AnchorBack >>)
                     ELSE NoFile]

TwoPagesGraph ==
    [written |-> TRUE,
     nodes |-> {IndexId, ChildId},
     edges |-> {[source |-> IndexId, target |-> ChildId, relationship |-> TextGo],
                [source |-> ChildId, target |-> IndexId, relationship |-> TextBack]}]

(***************************************************************************)
(* C4, amended: the same equivalence with "whose source file exists" read  *)
(* as "whose source file exists and can be read and parsed" (a page whose  *)
(* read or parse fails gives no edge, whatever anchors its bytes hold);    *)
(* the two-page scenario gives the 2 nodes and the 2 edges.                *)
(***************************************************************************)
C4_EdgesOfEveryReadableFile ==
    /\ Built => Pairs(out.edges) = Pairs(EdgesIn(Degraded(fs)))
    /\ Built /\ fs = TwoPages => out = TwoPagesGraph

C4_Witness == Built /\ fs = TwoPages /\ out = TwoPagesGraph

(***************************************************************************)
(* C5: once the table is imported the node set is exactly the set of       *)
(* get_node_id(relative_dir, filename) over its records, records with one  *)
(* identifier being one node; loading the edges leaves it unchanged, and   *)
(* it is the node set of the file build_knowledge_graph writes.            *)
(***************************************************************************)
C5_NodesAreTheRecords ==
    /\ stage \in {"NODES", "EDGES"} => graph_nodes = TableIds
    /\ Built => out.nodes = TableIds

\* two records of the table share an identifier, and edges were loaded
C5_Witness ==
    /\ Built
    /\ Cardinality(out.nodes) < Len(csv.rows)
    /\ out.edges # {}

(***************************************************************************)
(* C6: a page whose read or parse fails aborts neither run: the scanner    *)
(* emits its record with the four metadata fields empty and visits every   *)
(* other file, the builder adds no edge for it and visits every other      *)
(* node; the records and the edges are those of the directory in which the *)
(* failing pages have no metadata and no links; and a run stops only once  *)
(* its export is written (or, for a directory without pages, the scan is   *)
(* over).                                                                  *)
(***************************************************************************)
\* a step of the scanner or of the builder can be taken
CanGoOn ==
    \/ spc = "scan" /\ ((\E f \in Slots : WalkNext(f))
                         \/ \A f \in Existing : \E i \in 1..Len(walked) : walked[i] = f)
    \/ spc = "done" /\ csv.written /\ bpc = "idle"
    \/ bpc = "links" /\ (links # << >> \/ todo # << >> \/ (links = << >> /\ todo = << >>))

C6_FailingPageDoesNotAbort ==
    /\ spc # "aborted" /\ bpc # "aborted"
    /\ Len(html_files) = Len(walked)
    /\ \A i \in 1..Len(html_files) : html_files[i] = RecordIn(Degraded(fs), walked[i])
    /\ spc = "done" => \A f \in Existing : \E i \in 1..Len(walked) : walked[i] = f
    /\ stage = "EDGES" /\ bpc # "links" => graph_edges = EdgesIn(Degraded(fs))
    /\ Built => out.edges = EdgesIn(Degraded(fs))
    /\ CanGoOn \/ out.written \/ (spc = "done" /\ Existing = {})

\* a page that cannot be read was scanned and visited, and the graph was
\* exported with the edge of another page in it
C6_Witness ==
    /\ Built
    /\ out.edges # {}
    /\ \E r \in TableRows : PageIn(fs, r).exists /\ ~PageIn(fs, r).ok /\ PageIn(fs, r).anchors # << >>
    /\ \E i \in 1..Len(html_files) : ~fs[walked[i]].ok /\ html_files[i].title = Empty

(***************************************************************************)
(* C9: the graph holds at most one edge per ordered (source, target) pair  *)
(* at every point of edge loading and in the export; once a page's links   *)
(* are added, the relationship of its edge to a target is the trimmed text *)
(* of the last of its anchors that resolve to that target.                 *)
(***************************************************************************)
OneEdgePerPair(edges) ==
    \A e1 \in edges : \A e2 \in edges :
        e1.source = e2.source /\ e1.target = e2.target => e1 = e2

C9_LastLabelWins ==
    /\ OneEdgePerPair(graph_edges)
    /\ out.written => OneEdgePerPair(out.edges)
    /\ \A e \in graph_edges :
          (e.source # cur \/ links = << >>) => e \in EdgesIn(Degraded(fs))
    /\ Built => \A e \in out.edges : e \in EdgesIn(Degraded(fs))

\* a page holds two anchors that resolve to one known target with different
\* texts, and the exported edge carries the text of the second
C9_Witness ==
    /\ Built
    /\ \E r \in TableRows : \E t \in TableIds :
          LET a == PageIn(fs, r).anchors
              hits == AnchorsTo(fs, r, t)
          IN /\ PageIn(fs, r).exists /\ PageIn(fs, r).ok
             /\ \E i \in hits : \E j \in hits :
                   i < j /\ j = Last(hits) /\ Strip(a[i].text) # Strip(a[j].text)
                   /\ [source |-> get_node_id(r.relative_dir, r.filename), target |-> t,
                       relationship |-> Strip(a[j].text)] \in out.edges

(***************************************************************************)
(* The single-link run: the form of its input.                             *)
(***************************************************************************)
Normalized == hpc = "normalized"

\* the number of leading '../' when the prefix is '../' repeated, else 0
UpsOf(i) == IF \E k \in 1..MaxUp : i.pre = Ups(k) THEN Len(i.pre) \div 3 ELSE 0

Has(s, c) == \E k \in 1..Len(s) : s[k] = c
LastSegment(s) == SubSeq(s, RFind(s, "/") + 1, Len(s))
FirstSegment(s) == IF Find(s, "/") = 0 THEN s ELSE SubSeq(s, 1, Find(s, "/") - 1)

\* a page name as an href can spell it: not empty, one path segment, no
\* fragment mark, not made of dots only
IsPageName(name) ==
    /\ ~Has(name, "/") /\ ~Has(name, "#")
    /\ \E k \in 1..Len(name) : name[k] # "."

\* the segments that remain after the ascents, with or without the extension
\* of a page: no fragment, not a further ascent, a last segment with a name
RemainingOk(i) ==
    /\ i.body # Empty /\ ~Has(i.body, "#")
    /\ FirstSegment(i.body) # DotDot
    /\ i.suf \in {Empty, ExtHtml, ExtHtm}
    /\ IF i.suf = Empty THEN LastSegment(i.body) # Empty /\ ~Has(LastSegment(i.body), ".")
       ELSE \E k \in 1..Len(LastSegment(i.body)) : LastSegment(i.body)[k] # "."

\* the '/'-join of directory segments and a relative path
JoinUnder(segs, path) == IF segs = << >> THEN path ELSE Join(segs) \o Slash \o path

Rule1Prefixes ==
    {<<"h", "t", "t", "p", ":", "/", "/">>, <<"h", "t", "t", "p", "s", ":", "/", "/">>,
     <<"m", "a", "i", "l", "t", "o", ":">>, <<"#">>,
     <<"j", "a", "v", "a", "s", "c", "r", "i", "p", "t", ":">>}

(***************************************************************************)
(* C2, as claimed: when the href begins with more '../' than current_dir   *)
(* has directory levels (a root-level page has none), normalize_path       *)
(* returns None and the link gives no edge.                                *)
(***************************************************************************)
C2_OverDeepAscentIsDropped ==
    Normalized /\ UpsOf(inp) > Len(inp.dir) /\ RemainingOk(inp) => res = None /\ graph_edges = {}

(***************************************************************************)
(* C3: for current_dir of n >= 1 segments and an href of up_count '../'    *)
(* (1 <= up_count <= n) followed by the remaining segments, the result is  *)
(* the '/'-join of the first n - up_count segments of current_dir and the  *)
(* remaining segments without the extension; 'a/b' with '../c' gives       *)
(* 'a/c', with '../../c' gives 'c'.                                        *)
(***************************************************************************)
C3_AscentIsPathAlgebra ==
    /\ Normalized /\ 1 <= UpsOf(inp) /\ UpsOf(inp) <= Len(inp.dir) /\ RemainingOk(inp)
          => res = JoinUnder(SubSeq(inp.dir, 1, Len(inp.dir) - UpsOf(inp)), inp.body)
    /\ Normalized /\ inp.dir = << <<"a">>, <<"b">> >> /\ inp.body = <<"c">> /\ inp.suf = Empty
          => /\ inp.pre = Ups(1) => res = <<"a", "/", "c">>
             /\ inp.pre = Ups(2) => res = <<"c">>

\* 'a/b' with '../../c.html' was resolved, to 'c'
C3_Witness ==
    /\ Normalized /\ inp.dir = << <<"a">>, <<"b">> >> /\ inp.pre = Ups(2)
    /\ inp.body = <<"c">> /\ inp.suf = ExtHtml
    /\ res = <<"c">>

(***************************************************************************)
(* C7: for every current_dir and page name, 'name.html', 'name.htm' and    *)
(* 'name.html#fragment' resolve to one identifier, '<current_dir>/name',   *)
(* which is get_node_id(current_dir, name) and holds neither the fragment  *)
(* nor the extension.                                                      *)
(***************************************************************************)
C7_ExtensionAndFragmentStripped ==
    Normalized /\ inp.pre = Empty /\ IsPageName(inp.body)
               /\ inp.suf \in {ExtHtml, ExtHtm, ExtHtmlFragment}
        => /\ res = JoinUnder(inp.dir, inp.body)
           /\ res = nid
           /\ ~Has(res, "#") /\ ~EndsWith(res, ExtHtml) /\ ~EndsWith(res, ExtHtm)

\* 'c.html#f' was resolved from 'a/b', to 'a/b/c'
C7_Witness ==
    /\ Normalized /\ inp.dir = << <<"a">>, <<"b">> >> /\ inp.pre = Empty
    /\ inp.body = <<"c">> /\ inp.suf = ExtHtmlFragment
    /\ res = <<"a", "/", "b", "/", "c">>

(***************************************************************************)
(* C8: an href that starts with 'http://', 'https://', 'mailto:', '#' or   *)
(* 'javascript:' makes normalize_path return None, is not among the links  *)
(* extract_links_from_html returns, and gives no node and no edge,         *)
(* whatever the known nodes are.                                           *)
(***************************************************************************)
C8_Rule1LinksAreDropped ==
    (\E p \in Rule1Prefixes : StartsWith(Href(inp), p))
        => /\ Normalized => res = None
           /\ links = << >>
           /\ graph_edges = {}
           /\ graph_nodes \subseteq ImportedIds
           /\ out.written => out.edges = {} /\ out.nodes \subseteq ImportedIds

\* a 'javascript:' link of a page was visited, the pages it could name being
\* known, and the graph was exported
C8_Witness ==
    /\ Normalized /\ inp.pre = Javascript /\ inp.body = <<"c">> /\ inp.known
    /\ Built

(***************************************************************************)
(* C10, as claimed: for every relative_dir d and every filename f without  *)
(* '/', normalize_path(d, f + '.html') and normalize_path(d, './' + f +    *)
(* '.html') equal get_node_id(d, f); get_node_id is injective over such    *)
(* pairs.                                                                  *)
(***************************************************************************)
\* the href is '<f>.html' or './<f>.html' for a file name f without '/'
NamesAFile(i) ==
    /\ i.suf = ExtHtml
    /\ i.pre \in {Empty, DotSlash, Mailto, Javascript, Hash}
    /\ LinkName(i) \notin {Empty, <<".">>, DotDot}
    /\ ~Has(LinkName(i), "/")

\* no other pair (d, f), f without '/', has the identifier of the input's pair
NodeIdIsInjective(i) ==
    \A d \in LinkDirs : \A f \in LinkBodies :
        ~Has(f, "/") /\ get_node_id(Join(d), f) = nid => d = i.dir /\ f = LinkName(i)

C10_EveryFilenameAgrees ==
    /\ Normalized /\ NamesAFile(inp) => res = nid
    /\ hpc = "id" /\ ~Has(LinkName(inp), "/") => NodeIdIsInjective(inp)

(***************************************************************************)
(* C10, amended: the same for every filename f without '/' and without     *)
(* '#', not made of dots only and not starting with 'mailto:' or           *)
(* 'javascript:'; for d empty the result is f, with no leading separator.  *)
(***************************************************************************)
C10_PlainFilenameAgrees ==
    /\ Normalized /\ inp.suf = ExtHtml /\ inp.pre \in {Empty, DotSlash} /\ IsPageName(inp.body)
          => /\ res = nid
             /\ inp.dir = << >> => res = inp.body
    /\ hpc = "id" /\ ~Has(LinkName(inp), "/") => NodeIdIsInjective(inp)

\* './c.html' was resolved from the root, to 'c'
C10_Witness ==
    /\ Normalized /\ inp.dir = << >> /\ inp.pre = DotSlash
    /\ inp.body = <<"c">> /\ inp.suf = ExtHtml
    /\ res = <<"c">> /\ nid = <<"c">>

=============================================================================
